---------------------------- MODULE Spec2Model ----------------------------
(***************************************************************************)
(* A model of the raytracer crate: ray-sphere intersection, the hit list,  *)
(* the materials, the recursive ray_color, the scene builder and the       *)
(* parallel render driver of src/bin/main.rs.                              *)
(*                                                                         *)
(* f64 values are modelled in fixed point: an integer n stands for the     *)
(* real n / Scale.  Products, quotients and square roots round toward      *)
(* zero, as a stand-in for the rounding of the floating-point operations.  *)
(***************************************************************************)
EXTENDS Integers, Sequences, FiniteSets, TLC

VARIABLES
    \* Hittable::hit calls (src/hittable.rs, src/shapes.rs)
    hit_ray, hit_world, t_min, t_max, hit_call, hit_item, hit_result,
    \* ray_color (src/lib.rs): the current frame's arguments, the attenuations
    \* of the frames waiting for their recursive call, the value returned
    ray, world, recursion_depth, rc_pc, rc_stack, rc_color,
    \* what a call of ray_color has done so far
    max_depth, rc_hits, rc_scatters, rc_end, hit_record, scatter_direction,
    \* random_scene (src/bin/main.rs): its argument, the loop indices, the
    \* list built so far, the generator of rand::thread_rng()
    size, loop_a, loop_b, scene_world, num_spheres, scene_pc, candidates,
    thread_rng,
    \* main's render and write loops (src/bin/main.rs)
    img_width, img_height, samples_per_pixel, rng, rows_started, scene,
    computed, rng_reads, n_draws, out, render_pc,
    \* one pixel's closure and its line of output (src/bin/main.rs)
    pixel, samples_done, pixel_pc, line

hitVars == <<hit_ray, hit_world, t_min, t_max, hit_call, hit_item, hit_result>>

colorVars == <<ray, world, recursion_depth, rc_pc, rc_stack, rc_color,
               max_depth, rc_hits, rc_scatters, rc_end, hit_record,
               scatter_direction>>

sceneVars == <<size, loop_a, loop_b, scene_world, num_spheres, scene_pc, candidates,
               thread_rng>>

\* the generator and the sample count are shared by the render loop and by
\* one pixel's closure
drawVars == <<samples_per_pixel, rng, rng_reads, n_draws>>

renderVars == <<img_width, img_height, rows_started, scene, computed, out,
                render_pc>>

pixelVars == <<pixel, samples_done, pixel_pc, line>>

vars == <<hitVars, colorVars, sceneVars, drawVars, renderVars, pixelVars>>

\* what the steps of each part leave alone
notHit == <<colorVars, sceneVars, drawVars, renderVars, pixelVars>>

notColor == <<hitVars, sceneVars, drawVars, renderVars, pixelVars>>

notScene == <<hitVars, colorVars, drawVars, renderVars, pixelVars>>

notRender == <<hitVars, colorVars, sceneVars, pixelVars>>

notPixel == <<hitVars, colorVars, sceneVars, renderVars>>

-----------------------------------------------------------------------------
(* Fixed-point f64 *)

\* the resolution of the fixed-point stand-in for f64: 1.0 is Scale
Scale == 1000

\* f64::INFINITY: larger than every finite value of the model
Inf == 2000000000

\* f64::abs
Abs(x) == IF x < 0 THEN -x ELSE x

\* x / y of integers, rounded toward zero (y # 0)
TDiv(x, y) ==
    IF (x < 0) = (y < 0) THEN Abs(x) \div Abs(y) ELSE -(Abs(x) \div Abs(y))

\* x * y on f64
Mul(x, y) == TDiv(x * y, Scale)

\* x / y on f64 (y # 0)
Div(x, y) == TDiv(x * Scale, y)

RECURSIVE ISqrtIter(_, _, _)
\* the largest r in lo..hi with r * r <= n (bisection)
ISqrtIter(n, lo, hi) ==
    IF lo >= hi THEN lo
    ELSE LET mid == (lo + hi + 1) \div 2
         IN  IF mid * mid <= n THEN ISqrtIter(n, mid, hi)
                               ELSE ISqrtIter(n, lo, mid - 1)

\* f64::sqrt of a non-negative value
Sqrt(x) == ISqrtIter(x * Scale, 0, 46340)

\* f64::min
Min(x, y) == IF y < x THEN y ELSE x

-----------------------------------------------------------------------------
(* nalgebra Vector3<f64>: Vector, Color, Point *)

V3(x, y, z) == <<x * Scale, y * Scale, z * Scale>>

\* Vector3::from_element
FromElement(x) == <<x, x, x>>

VAdd(a, b) == <<a[1] + b[1], a[2] + b[2], a[3] + b[3]>>

VSub(a, b) == <<a[1] - b[1], a[2] - b[2], a[3] - b[3]>>

VNeg(a) == <<-a[1], -a[2], -a[3]>>

\* scalar * vector
VScale(k, a) == <<Mul(k, a[1]), Mul(k, a[2]), Mul(k, a[3])>>

\* vector / scalar
VDiv(a, k) == <<Div(a[1], k), Div(a[2], k), Div(a[3], k)>>

\* component_mul
ComponentMul(a, b) == <<Mul(a[1], b[1]), Mul(a[2], b[2]), Mul(a[3], b[3])>>

Dot(a, b) == Mul(a[1], b[1]) + Mul(a[2], b[2]) + Mul(a[3], b[3])

NormSquared(a) == Dot(a, a)

Norm(a) == Sqrt(NormSquared(a))

Normalize(a) == VDiv(a, Norm(a))

-----------------------------------------------------------------------------
(* Option<T> *)

None == [some |-> FALSE]

Some(x) == [some |-> TRUE, val |-> x]

-----------------------------------------------------------------------------
(* Ray *)

\* Ray::new
RayNew(origin, direction) == [origin |-> origin, direction |-> direction]

\* Ray::at
RayAt(r, t) == VAdd(r.origin, VScale(t, r.direction))

-----------------------------------------------------------------------------
(* Materials (constructors) *)

\* Lambertian::new
LambertianNew(albedo) == [kind |-> "Lambertian", albedo |-> albedo]

\* Metal::new: fuzz.clamp(0.0, 1.0)
MetalNew(albedo, fuzz) ==
    [kind |-> "Metal", albedo |-> albedo,
     fuzz |-> IF fuzz < 0 THEN 0 ELSE IF fuzz > Scale THEN Scale ELSE fuzz]

\* Dielectric::new
DielectricNew(refraction_index) ==
    [kind |-> "Dielectric", refraction_index |-> refraction_index]

-----------------------------------------------------------------------------
(* HitRecord, Sphere, HittableList *)

\* HitRecord::new, once front_face is known
HitRecordWith(point, outward_normal, material, t, front_face) ==
    [point |-> point,
     normal |-> IF ~front_face THEN VNeg(outward_normal) ELSE outward_normal,
     material |-> material, t |-> t, front_face |-> front_face]

\* a front_face test with the comparison turned around
HitRecordNewFlipped(point, outward_normal, material, t, r) ==
    HitRecordWith(point, outward_normal, material, t,
                  Dot(r.direction, outward_normal) > 0)

\* HitRecord::new
HitRecordNew(point, outward_normal, material, t, r) ==
    HitRecordWith(point, outward_normal, material, t,
                  Dot(r.direction, outward_normal) < 0)

\* Sphere::new
SphereNew(origin, radius, material) ==
    [origin |-> origin, radius |-> radius, material |-> material]

\* a, half_b and c of Sphere::hit
SphereQuadratic(oc, direction, radius) ==
    [a |-> NormSquared(direction),
     half_b |-> Dot(oc, direction),
     c |-> NormSquared(oc) - Mul(radius, radius)]

\* the two roots (-half_b -+ discriminant.sqrt()) / a of Sphere::hit
RootsWith(q, discriminant) ==
    [discriminant |-> discriminant,
     small |-> IF discriminant < 0 THEN 0
               ELSE Div(-q.half_b - Sqrt(discriminant), q.a),
     large |-> IF discriminant < 0 THEN 0
               ELSE Div(-q.half_b + Sqrt(discriminant), q.a)]

\* discriminant = half_b * half_b - a * c
RootsOf(q) == RootsWith(q, Mul(q.half_b, q.half_b) - Mul(q.a, q.c))

\* the quadratic of Sphere::hit: discriminant and both roots
SphereRoots(sphere, r) ==
    RootsOf(SphereQuadratic(VSub(r.origin, sphere.origin), r.direction,
                            sphere.radius))

\* a choice of root that leaves the bounds of the range out
SelectRootOpen(roots, tmin, tmax) ==
    IF roots.discriminant < 0 THEN None
    ELSE IF ~(roots.small <= tmin \/ tmax <= roots.small)
         THEN Some(roots.small)
    ELSE IF ~(roots.large <= tmin \/ tmax <= roots.large)
         THEN Some(roots.large)
    ELSE None

\* the root Sphere::hit takes: the early returns and the two range tests
SelectRoot(roots, tmin, tmax) ==
    IF roots.discriminant < 0 THEN None
    ELSE IF ~(roots.small < tmin \/ tmax < roots.small)
         THEN Some(roots.small)
    ELSE IF ~(roots.large < tmin \/ tmax < roots.large)
         THEN Some(roots.large)
    ELSE None

\* the outward normal Sphere::hit hands to HitRecord::new
OutwardNormal(sphere, r, root) ==
    VDiv(VSub(RayAt(r, root), sphere.origin), sphere.radius)

\* the hit record Sphere::hit builds for the root it took
SphereHitAt(sphere, r, root) ==
    IF root.some
    THEN Some(HitRecordNew(RayAt(r, root.val),
                           OutwardNormal(sphere, r, root.val),
                           sphere.material, root.val, r))
    ELSE None

\* Sphere::hit
SphereHit(sphere, r, tmin, tmax) ==
    SphereHitAt(sphere, r, SelectRoot(SphereRoots(sphere, r), tmin, tmax))

RECURSIVE ListScan(_, _, _, _, _, _)

\* a loop body that keeps the caller's t_max as the bound
ListStepNoShrink(items, r, tmin, k, closest_so_far, result, h) ==
    IF h.some
    THEN ListScan(items, r, tmin, k + 1, closest_so_far, h)
    ELSE ListScan(items, r, tmin, k + 1, closest_so_far, result)

\* the body of the for loop of HittableList::hit, h being item.hit(...)
ListStep(items, r, tmin, k, closest_so_far, result, h) ==
    IF h.some
    THEN ListScan(items, r, tmin, k + 1, h.val.t, h)
    ELSE ListScan(items, r, tmin, k + 1, closest_so_far, result)

\* the for loop of HittableList::hit from item k on
ListScan(items, r, tmin, k, closest_so_far, result) ==
    IF k > Len(items) THEN result
    ELSE ListStep(items, r, tmin, k, closest_so_far, result,
                  SphereHit(items[k], r, tmin, closest_so_far))

\* HittableList::hit
HittableListHit(items, r, tmin, tmax) ==
    ListScan(items, r, tmin, 1, tmax, None)

-----------------------------------------------------------------------------
(* Specification SpecHit: one call of Sphere::hit or HittableList::hit on  *)
(* inputs drawn from bounded sets.                                         *)

\* the longest hit list tried
MaxItems == 2

HitRays ==
    { RayNew(o, d) :
        o \in {V3(0, 0, 0), V3(-3, 0, 0)},
        d \in {V3(1, 0, 0), V3(-1, 0, 0), V3(2, 0, 0), V3(0, 1, 0),
               <<600, 800, 0>>} }

Grey == LambertianNew(FromElement(500))

Gold == MetalNew(<<800, 600, 200>>, 0)

Glass == DielectricNew(1500)

HitSpheres ==
    { SphereNew(V3(2, 0, 0), Scale, Grey),
      SphereNew(V3(2, 0, 0), Scale, Gold),
      SphereNew(V3(3, 0, 0), 2 * Scale, Glass),
      SphereNew(V3(0, 0, 0), 2 * Scale, Gold),
      SphereNew(V3(2, 1, 0), Scale, Glass) }

HitWorlds == UNION { [1..n -> HitSpheres] : n \in 0..MaxItems }

HitIdle ==
    /\ hit_ray = RayNew(V3(0, 0, 0), V3(1, 0, 0))
    /\ hit_world = <<>>
    /\ t_min = 0
    /\ t_max = Inf
    /\ hit_call = "none"
    /\ hit_item = 0
    /\ hit_result = None

InitHit ==
    /\ hit_ray \in HitRays
    /\ hit_world \in HitWorlds
    /\ t_min \in {0, 1, Scale}
    /\ t_max \in {Scale, 3 * Scale, Inf}
    /\ hit_call = "none"
    /\ hit_item = 0
    /\ hit_result = None

\* item.hit(ray, t_min, t_max) on one member
CallSphereHit ==
    /\ hit_call = "none"
    /\ \E k \in 1..Len(hit_world) :
        /\ hit_item' = k
        /\ hit_result' = SphereHit(hit_world[k], hit_ray, t_min, t_max)
    /\ hit_call' = "Sphere::hit"
    /\ UNCHANGED <<hit_ray, hit_world, t_min, t_max, notHit>>

\* world.hit(ray, t_min, t_max)
CallListHit ==
    /\ hit_call = "none"
    /\ hit_result' = HittableListHit(hit_world, hit_ray, t_min, t_max)
    /\ hit_call' = "HittableList::hit"
    /\ UNCHANGED <<hit_ray, hit_world, t_min, t_max, hit_item, notHit>>

NextHit ==
    \/ CallSphereHit
    \/ CallListHit



\* the hit of member k of the list, taken on its own in [t_min, t_max]
MemberHit(k) == SphereHit(hit_world[k], hit_ray, t_min, t_max)

\* the members of the list the ray hits in range
MembersHit == { k \in 1..Len(hit_world) : MemberHit(k).some }

\* C2: HittableList.hit returns nothing when no member is hit in range, and
\* otherwise the hit of minimal t; of two members hit at the same minimal t,
\* the one that comes first in scan order is returned.
C2_FirstClosest ==
    hit_call = "HittableList::hit" =>
        IF MembersHit = {} THEN ~hit_result.some
        ELSE LET first == CHOOSE k \in MembersHit : \A m \in MembersHit :
                              \/ MemberHit(k).val.t < MemberHit(m).val.t
                              \/ MemberHit(k).val.t = MemberHit(m).val.t /\ k <= m
             IN  hit_result = MemberHit(first)

\* C2 as amended: nothing when no member is hit in range, otherwise the hit
\* of minimal t; of the members hit at the same minimal t, the one that comes
\* last in scan order is returned.
C2_LastClosest ==
    hit_call = "HittableList::hit" =>
        IF MembersHit = {} THEN ~hit_result.some
        ELSE LET last == CHOOSE k \in MembersHit : \A m \in MembersHit :
                             \/ MemberHit(k).val.t < MemberHit(m).val.t
                             \/ MemberHit(k).val.t = MemberHit(m).val.t /\ k >= m
             IN  hit_result = MemberHit(last)

\* two members are hit at the same minimal t, and the later one is returned
C2_Witness ==
    /\ hit_call = "HittableList::hit"
    /\ Len(hit_world) = 2
    /\ MembersHit = {1, 2}
    /\ MemberHit(1).val.t = MemberHit(2).val.t
    /\ MemberHit(1) # MemberHit(2)
    /\ hit_result = MemberHit(2)

\* C3: every hit record has normal . ray.direction <= 0, and front_face is
\* true exactly when the stored normal is the geometric outward normal.
C3_NormalOpposesRay ==
    hit_result.some =>
        LET h == hit_result.val
        IN  /\ Dot(h.normal, hit_ray.direction) <= 0
            /\ hit_call = "Sphere::hit" =>
                   (h.front_face <=>
                       h.normal = OutwardNormal(hit_world[hit_item], hit_ray, h.t))

\* a hit from inside a sphere: the outward normal was negated
C3_Witness ==
    /\ hit_call = "Sphere::hit"
    /\ hit_result.some
    /\ ~hit_result.val.front_face
    /\ hit_result.val.normal =
           VNeg(OutwardNormal(hit_world[hit_item], hit_ray, hit_result.val.t))
    /\ Dot(hit_result.val.normal, hit_ray.direction) < 0

\* C4: Sphere.hit returns the smaller root when it lies strictly inside
\* (t_min, t_max), otherwise the larger root when that one does, otherwise
\* nothing; a hit never has t = t_min or t = t_max; a negative discriminant
\* gives nothing.
C4_OpenInterval ==
    hit_call = "Sphere::hit" =>
        LET q == SphereRoots(hit_world[hit_item], hit_ray)
            inside(t) == t_min < t /\ t < t_max
        IN  /\ IF q.discriminant < 0 THEN ~hit_result.some
               ELSE IF inside(q.small)
                    THEN hit_result.some /\ hit_result.val.t = q.small
               ELSE IF inside(q.large)
                    THEN hit_result.some /\ hit_result.val.t = q.large
               ELSE ~hit_result.some
            /\ hit_result.some =>
                   hit_result.val.t # t_min /\ hit_result.val.t # t_max

\* C4 as amended: for a ray of non-zero direction, Sphere.hit returns the
\* smaller root when it lies in the closed interval [t_min, t_max], otherwise
\* the larger root when that one does, otherwise nothing; a negative
\* discriminant gives nothing.
C4_ClosedInterval ==
    hit_call = "Sphere::hit" =>
        LET q == SphereRoots(hit_world[hit_item], hit_ray)
            inside(t) == t_min <= t /\ t <= t_max
        IN  IF q.discriminant < 0 THEN ~hit_result.some
            ELSE IF inside(q.small)
                 THEN hit_result.some /\ hit_result.val.t = q.small
            ELSE IF inside(q.large)
                 THEN hit_result.some /\ hit_result.val.t = q.large
            ELSE ~hit_result.some

\* the smaller root is exactly t_max, or the larger one exactly t_min, and
\* is returned
C4_Witness ==
    /\ hit_call = "Sphere::hit"
    /\ hit_result.some
    /\ t_min < t_max
    /\ hit_result.val.t \in {t_min, t_max}

-----------------------------------------------------------------------------
(* Random draws of rand::thread_rng(): each draw is any value of a small   *)
(* set of values the distribution can give.                                *)

\* Point::from_distribution(Uniform::new(-1.0, 1.0)): the candidate points
\* of the rejection loops (the origin, of probability zero, is left out)
RandomCandidates ==
    { <<x, 0, 0>> : x \in {-Scale, -500, 500} }
        \cup { <<0, y, 0>> : y \in {-Scale, -500, 500} }

\* random_point_in_unit_sphere: the candidates the loop does not reject
RandomPointsInUnitSphere ==
    { p \in RandomCandidates : NormSquared(p) < Scale }

\* random_unit_vector
RandomUnitVectors == { Normalize(p) : p \in RandomPointsInUnitSphere }

\* rand::thread_rng().gen_range(0.0..1.0)
RandomUnitDraws == {0, 500}

-----------------------------------------------------------------------------
(* Materials: scatter *)

\* vector_near_zero as a test of magnitudes
VectorNearZeroAbs(vector) ==
    \A i \in 1..3 : Abs(vector[i]) * 100000 < 1

\* vector_near_zero: vector < Vector::from_element(1e-8), which nalgebra
\* decides component by component (every component is less); x stands for
\* x / Scale, so x / Scale < 1e-8 is x * 100000 < 1
VectorNearZero(vector) ==
    \A i \in 1..3 : vector[i] * 100000 < 1

\* hit_record.normal + random_unit_vector() in Lambertian::scatter
LambertianDirection(hit, unit) == VAdd(hit.normal, unit)

\* Lambertian::scatter from the sum on
LambertianScatterWith(material, hit, sum) ==
    Some([ray |-> RayNew(hit.point,
                         IF VectorNearZero(sum) THEN hit.normal ELSE sum),
          attenuation |-> material.albedo])

\* Lambertian::scatter
LambertianScatter(material, hit, unit) ==
    LambertianScatterWith(material, hit, LambertianDirection(hit, unit))

\* reflect
Reflect(vector, normal) ==
    VSub(vector, VScale(Mul(2 * Scale, Dot(vector, normal)), normal))

\* Metal::scatter from the scattered ray on
MetalScatterWith(material, hit, scattered_ray) ==
    IF Dot(scattered_ray.direction, hit.normal) > 0
    THEN Some([ray |-> scattered_ray, attenuation |-> material.albedo])
    ELSE None

\* Metal::scatter
MetalScatter(material, input_ray, hit, p) ==
    MetalScatterWith(material, hit,
        RayNew(hit.point,
               VAdd(Reflect(Normalize(input_ray.direction), hit.normal),
                    VScale(material.fuzz, p))))

\* r_out_perpendicular + r_out_parallel of refract
RefractSum(normal, r_out_perpendicular) ==
    VAdd(r_out_perpendicular,
         VScale(Sqrt(Abs(Scale - NormSquared(r_out_perpendicular))),
                VNeg(normal)))

\* refract from cos_theta on
RefractWith(vector, normal, refraction_ratio, cos_theta) ==
    RefractSum(normal,
        VScale(refraction_ratio, VAdd(vector, VScale(cos_theta, normal))))

\* refract
Refract(vector, normal, refraction_ratio) ==
    RefractWith(vector, normal, refraction_ratio,
                Min(Dot(VNeg(vector), normal), Scale))

\* powi(5)
Pow5(x) == Mul(Mul(Mul(Mul(x, x), x), x), x)

\* r0 + (1.0 - r0) * (1.0 - cosine).powi(5)
Schlick(r0, cosine) == r0 + Mul(Scale - r0, Pow5(Scale - cosine))

\* r0 = r0 * r0
Square(x) == Mul(x, x)

\* Dielectric::reflectance
Reflectance(cosine, ref_idx) ==
    Schlick(Square(Div(Scale - ref_idx, Scale + ref_idx)), cosine)

\* cannot_refract, sin2 being 1.0 - cos_theta * cos_theta: the square root of
\* a negative value is NaN, and NaN > 1.0 is false
CannotRefract(refraction_ratio, sin2) ==
    sin2 >= 0 /\ Mul(refraction_ratio, Sqrt(sin2)) > Scale

\* Dielectric::scatter from cos_theta on
DielectricScatterWith(hit, unit_direction, refraction_ratio, cos_theta, draw) ==
    Some([ray |-> RayNew(hit.point,
              IF \/ CannotRefract(refraction_ratio,
                                  Scale - Mul(cos_theta, cos_theta))
                 \/ Reflectance(cos_theta, refraction_ratio) > draw
              THEN Reflect(unit_direction, hit.normal)
              ELSE Refract(unit_direction, hit.normal, refraction_ratio)),
          attenuation |-> FromElement(Scale)])

\* Dielectric::scatter from unit_direction on
DielectricScatterDir(hit, unit_direction, refraction_ratio, draw) ==
    DielectricScatterWith(hit, unit_direction, refraction_ratio,
        Min(Dot(VNeg(unit_direction), hit.normal), Scale), draw)

\* Dielectric::scatter
DielectricScatter(material, input_ray, hit, draw) ==
    DielectricScatterDir(hit, Normalize(input_ray.direction),
        IF hit.front_face THEN Div(Scale, material.refraction_index)
                          ELSE material.refraction_index,
        draw)

\* hit_record.material.scatter(ray, &hit_record): the dynamic dispatch
Scatter(input_ray, hit, unit, p, draw) ==
    CASE hit.material.kind = "Lambertian" ->
             LambertianScatter(hit.material, hit, unit)
      [] hit.material.kind = "Metal" ->
             MetalScatter(hit.material, input_ray, hit, p)
      [] hit.material.kind = "Dielectric" ->
             DielectricScatter(hit.material, input_ray, hit, draw)

-----------------------------------------------------------------------------
(* ray_color, one step per frame entered and per frame left *)

Black == FromElement(0)

\* (1.0 - t) * white + t * Color::new(0.5, 0.7, 1.0)
BackgroundAt(t) ==
    VAdd(VScale(Scale - t, FromElement(Scale)), VScale(t, <<500, 700, Scale>>))

\* the background color of ray_color
Background(r) == BackgroundAt(Mul(500, Normalize(r.direction)[2] + Scale))

\* the depth test that never fires
DepthExhaustedNever(depth) == depth < 0

\* recursion_depth == 0
DepthExhausted(depth) == depth = 0

\* a recursive call that passes the depth on unchanged
RecursiveDepthSame(depth) == depth

\* recursion_depth - 1
RecursiveDepth(depth) == depth - 1

\* world.hit(ray, 0.001, f64::INFINITY)
WorldHit == HittableListHit(world, ray, 1, Inf)

\* if recursion_depth == 0 { Color::from_element(0.0) }
RayColorDepthZero ==
    /\ rc_pc = "call"
    /\ DepthExhausted(recursion_depth)
    /\ rc_color' = Black
    /\ rc_end' = "depth"
    /\ rc_pc' = "return"
    /\ UNCHANGED <<ray, world, recursion_depth, rc_stack, max_depth, rc_hits,
                   rc_scatters, hit_record, scatter_direction, notColor>>

\* no hit: the background color
RayColorMiss ==
    /\ rc_pc = "call"
    /\ ~DepthExhausted(recursion_depth)
    /\ \E h \in {WorldHit} :
        /\ ~h.some
        /\ hit_record' = h
    /\ scatter_direction' = None
    /\ rc_hits' = rc_hits + 1
    /\ rc_color' = Background(ray)
    /\ rc_end' = "miss"
    /\ rc_pc' = "return"
    /\ UNCHANGED <<ray, world, recursion_depth, rc_stack, max_depth,
                   rc_scatters, notColor>>

\* a hit whose material absorbs the ray: map_or gives black
RayColorAbsorbed ==
    /\ rc_pc = "call"
    /\ ~DepthExhausted(recursion_depth)
    /\ \E h \in {WorldHit} :
        /\ h.some
        /\ \E unit \in RandomUnitVectors, p \in RandomPointsInUnitSphere,
              draw \in RandomUnitDraws :
               ~Scatter(ray, h.val, unit, p, draw).some
        /\ hit_record' = h
    /\ scatter_direction' = None
    /\ rc_hits' = rc_hits + 1
    /\ rc_scatters' = rc_scatters + 1
    /\ rc_color' = Black
    /\ rc_end' = "absorbed"
    /\ rc_pc' = "return"
    /\ UNCHANGED <<ray, world, recursion_depth, rc_stack, max_depth, notColor>>

\* a hit whose material scatters the ray: the recursive call
RayColorRecurse ==
    /\ rc_pc = "call"
    /\ ~DepthExhausted(recursion_depth)
    /\ \E h \in {WorldHit} :
        /\ h.some
        /\ \E unit \in RandomUnitVectors, p \in RandomPointsInUnitSphere,
              draw \in RandomUnitDraws :
            /\ \E s \in {Scatter(ray, h.val, unit, p, draw)} :
                /\ s.some
                /\ ray' = s.val.ray
                /\ rc_stack' = Append(rc_stack, s.val.attenuation)
            /\ scatter_direction' =
                   IF h.val.material.kind = "Lambertian"
                   THEN Some(LambertianDirection(h.val, unit))
                   ELSE None
        /\ hit_record' = h
    /\ rc_hits' = rc_hits + 1
    /\ rc_scatters' = rc_scatters + 1
    /\ recursion_depth' = RecursiveDepth(recursion_depth)
    /\ UNCHANGED <<world, rc_pc, rc_color, max_depth, rc_end, notColor>>

\* the recursive call returns: component_mul_assign(attenuation)
RayColorReturn ==
    /\ rc_pc = "return"
    /\ rc_stack # <<>>
    /\ rc_color' = ComponentMul(rc_color, rc_stack[Len(rc_stack)])
    /\ rc_stack' = SubSeq(rc_stack, 1, Len(rc_stack) - 1)
    /\ recursion_depth' = recursion_depth + 1
    /\ UNCHANGED <<ray, world, rc_pc, max_depth, rc_hits, rc_scatters, rc_end,
                   hit_record, scatter_direction, notColor>>

\* the outermost call returns
RayColorDone ==
    /\ rc_pc = "return"
    /\ rc_stack = <<>>
    /\ rc_pc' = "done"
    /\ UNCHANGED <<ray, world, recursion_depth, rc_stack, rc_color, max_depth,
                   rc_hits, rc_scatters, rc_end, hit_record, scatter_direction,
                   notColor>>

NextColor ==
    \/ RayColorDepthZero
    \/ RayColorMiss
    \/ RayColorAbsorbed
    \/ RayColorRecurse
    \/ RayColorReturn
    \/ RayColorDone

\* the deepest recursion tried
MaxDepth == 3

FuzzyGold == MetalNew(<<800, 600, 200>>, Scale)

ColorRays ==
    { RayNew(V3(0, 0, 0), V3(1, 0, 0)),
      RayNew(V3(0, 0, 0), V3(0, 1, 0)),
      RayNew(V3(0, 0, 0), <<-600, -800, 0>>) }

ColorWorlds ==
    { <<>>,
      <<SphereNew(V3(3, 0, 0), Scale, Grey)>>,
      <<SphereNew(V3(3, 0, 0), Scale, FuzzyGold)>>,
      <<SphereNew(V3(3, 0, 0), Scale, Glass)>>,
      <<SphereNew(V3(3, 1, 0), Scale, FuzzyGold)>>,
      <<SphereNew(V3(0, 0, 0), 4 * Scale, Grey),
        SphereNew(V3(3, 0, 0), Scale, Gold)>> }

ColorIdle ==
    /\ ray = RayNew(V3(0, 0, 0), V3(1, 0, 0))
    /\ world = <<>>
    /\ recursion_depth = 0
    /\ max_depth = 0
    /\ rc_pc = "idle"
    /\ rc_stack = <<>>
    /\ rc_color = Black
    /\ rc_hits = 0
    /\ rc_scatters = 0
    /\ rc_end = "none"
    /\ hit_record = None
    /\ scatter_direction = None

\* ray_color(&ray, &world, max_depth) is called
InitColor ==
    /\ ray \in ColorRays
    /\ world \in ColorWorlds
    /\ max_depth \in 0..MaxDepth
    /\ recursion_depth = max_depth
    /\ rc_pc = "call"
    /\ rc_stack = <<>>
    /\ rc_color = Black
    /\ rc_hits = 0
    /\ rc_scatters = 0
    /\ rc_end = "none"
    /\ hit_record = None
    /\ scatter_direction = None

-----------------------------------------------------------------------------
(* Claims about ray_color *)

\* C1: ray_color called with recursion_depth = 0 returns exactly black and
\* performs no scene intersection and no material scatter, whatever the ray
\* and the scene.
C1_DepthZeroIsBlack ==
    max_depth = 0 /\ rc_pc # "idle" =>
        /\ rc_hits = 0
        /\ rc_scatters = 0
        /\ rc_pc \in {"return", "done"} => rc_color = Black /\ rc_end = "depth"

\* a call with depth 0 has returned, in a scene whose object the ray would hit
C1_Witness ==
    /\ max_depth = 0
    /\ rc_pc = "done"
    /\ world # <<>>
    /\ HittableListHit(world, ray, 1, Inf).some

\* the steps a call of ray_color has left at most: recursion_depth frames
\* to enter and to leave, the frames of rc_stack to leave
RayColorRank ==
    CASE rc_pc = "call" -> 2 + Len(rc_stack) + 2 * recursion_depth
      [] rc_pc = "return" -> 1 + Len(rc_stack)
      [] OTHER -> 0

\* C9: ray_color(ray, world, d) terminates after at most d scene
\* intersections and at most d scatters, in exactly one of three ways (depth
\* 0 reached: black; the material absorbs: black; the ray misses every
\* object: the background), and each recursive call gets a remaining depth
\* exactly one less than its caller's.  Termination: every step lowers
\* RayColorRank, which starts at 2 + 2 * d and is never negative.
C9_BoundedRecursion ==
    /\ [](/\ rc_hits <= max_depth
          /\ rc_scatters <= max_depth
          /\ recursion_depth + Len(rc_stack) = max_depth
          /\ RayColorRank \in 0..(2 + 2 * max_depth)
          /\ rc_pc = "done" =>
                /\ rc_end \in {"depth", "absorbed", "miss"}
                /\ rc_end = "depth" => rc_hits = max_depth /\ rc_scatters = max_depth
                /\ rc_end = "absorbed" => hit_record.some /\ rc_scatters = rc_hits
                /\ rc_end = "miss" => ~hit_record.some /\ rc_scatters = rc_hits - 1)
    /\ [][/\ RayColorRank' < RayColorRank
          /\ Len(rc_stack') > Len(rc_stack) =>
                recursion_depth' = recursion_depth - 1]_vars

\* a call that went down to depth 0 through every level and has returned
C9_Witness ==
    /\ rc_pc = "done"
    /\ max_depth >= 2
    /\ rc_end = "depth"
    /\ rc_hits = max_depth
    /\ rc_scatters = max_depth

\* C10: Lambertian.scatter replaces normal + random_unit_vector() by the
\* normal if and only if every component of that direction has magnitude
\* below the 1e-8 threshold; a direction with a component of magnitude at or
\* above it, large negative components included, is kept unchanged.
C10_NearZeroByMagnitude ==
    scatter_direction.some =>
        ray.direction = IF VectorNearZeroAbs(scatter_direction.val)
                        THEN hit_record.val.normal
                        ELSE scatter_direction.val

-----------------------------------------------------------------------------
(* The pseudo-random generators (rand's StdRng and ThreadRng): a state, a  *)
(* step, and the value a distribution makes of a state.  A full-period     *)
(* congruential generator on 0..63 stands for them.                        *)

\* the state after one draw
RngNext(g) == (5 * g + 3) % 64

RECURSIVE RngAfter(_, _)
\* the state after n draws
RngAfter(g, n) == IF n = 0 THEN g ELSE RngAfter(RngNext(g), n - 1)

\* Uniform::new(lo, hi).sample(rng) with rng in state g: a value of [lo, hi)
Uniform(lo, hi, g) == lo + TDiv((hi - lo) * g, 64)

\* the value of the (n+1)-th draw from state g on
UniformAt(lo, hi, g, n) == Uniform(lo, hi, RngAfter(g, n))

\* the largest seed tried
MaxSeed == 3

-----------------------------------------------------------------------------
(* random_scene *)

\* the ground sphere
Ground == SphereNew(<<0, -1000 * Scale, 0>>, 1000 * Scale,
                    LambertianNew(FromElement(500)))

\* the three large spheres added after the loop
LargeSpheres ==
    << SphereNew(V3(0, 1, 0), Scale, DielectricNew(1500)),
       SphereNew(V3(-4, 1, 0), Scale, LambertianNew(<<400, 200, 100>>)),
       SphereNew(V3(4, 1, 0), Scale, MetalNew(<<700, 600, 500>>, 0)) >>

\* a loop that stops one short of size
LoopLastExclusive(n) == n - 1

\* the last value of the loop indices a and b: -size..=size
LoopLast(n) == n

\* choose_material, the first draw of an iteration
ChooseMaterial(g) == UniformAt(-Scale, Scale, g, 0)

\* origin, from the second and third draws
CandidateOrigin(g) ==
    << loop_a * Scale + Mul(900, UniformAt(-Scale, Scale, g, 1)),
       200,
       loop_b * Scale + Mul(900, UniformAt(-Scale, Scale, g, 2)) >>

\* (origin - origin_reference).norm() > 0.9
FarFromReference(origin) == Norm(VSub(origin, <<4 * Scale, 200, 0>>)) > 900

\* Color::from_distribution: three draws, from the (n+1)-th on
ColorFromDistribution(lo, hi, g, n) ==
    << UniformAt(lo, hi, g, n), UniformAt(lo, hi, g, n + 1),
       UniformAt(lo, hi, g, n + 2) >>

\* the diffuse material: the product of two random colors
DiffuseMaterial(g) ==
    LambertianNew(ComponentMul(ColorFromDistribution(-Scale, Scale, g, 3),
                               ColorFromDistribution(-Scale, Scale, g, 6)))

\* the metal material: a random albedo and rng.gen_range(0.0..0.5)
MetalMaterial(g) ==
    MetalNew(ColorFromDistribution(500, Scale, g, 3), UniformAt(0, 500, g, 6))

\* the next values of the loop indices
LoopAdvance ==
    /\ loop_b' = IF loop_b = LoopLast(size) THEN -size ELSE loop_b + 1
    /\ loop_a' = IF loop_b = LoopLast(size) THEN loop_a + 1 ELSE loop_a
    /\ candidates' = candidates + 1

\* the body of the loop runs
InLoop == scene_pc = "loop" /\ loop_a <= LoopLast(size) /\ -size <= LoopLast(size)

\* with_capacity, the ground sphere, the generator, the loop's start
SceneBegin ==
    /\ scene_pc = "begin"
    /\ num_spheres' = 4 + (2 * size) * (2 * size)
    /\ scene_world' = <<Ground>>
    /\ loop_a' = -size
    /\ loop_b' = -size
    /\ scene_pc' = "loop"
    /\ UNCHANGED <<size, candidates, thread_rng, notScene>>

\* an iteration whose sphere is too close to the reference point
SceneSkip ==
    /\ InLoop
    /\ ~FarFromReference(CandidateOrigin(thread_rng))
    /\ thread_rng' = RngAfter(thread_rng, 3)
    /\ LoopAdvance
    /\ UNCHANGED <<size, scene_world, num_spheres, scene_pc, notScene>>

\* an iteration that adds a diffuse sphere
SceneAddDiffuse ==
    /\ InLoop
    /\ FarFromReference(CandidateOrigin(thread_rng))
    /\ ChooseMaterial(thread_rng) < 800
    /\ scene_world' = Append(scene_world,
           SphereNew(CandidateOrigin(thread_rng), 200,
                     DiffuseMaterial(thread_rng)))
    /\ thread_rng' = RngAfter(thread_rng, 9)
    /\ LoopAdvance
    /\ UNCHANGED <<size, num_spheres, scene_pc, notScene>>

\* an iteration that adds a metal sphere
SceneAddMetal ==
    /\ InLoop
    /\ FarFromReference(CandidateOrigin(thread_rng))
    /\ ~(ChooseMaterial(thread_rng) < 800)
    /\ ChooseMaterial(thread_rng) < 950
    /\ scene_world' = Append(scene_world,
           SphereNew(CandidateOrigin(thread_rng), 200,
                     MetalMaterial(thread_rng)))
    /\ thread_rng' = RngAfter(thread_rng, 7)
    /\ LoopAdvance
    /\ UNCHANGED <<size, num_spheres, scene_pc, notScene>>

\* an iteration that adds a glass sphere
SceneAddGlass ==
    /\ InLoop
    /\ FarFromReference(CandidateOrigin(thread_rng))
    /\ ~(ChooseMaterial(thread_rng) < 950)
    /\ scene_world' = Append(scene_world,
           SphereNew(CandidateOrigin(thread_rng), 200, DielectricNew(1500)))
    /\ thread_rng' = RngAfter(thread_rng, 3)
    /\ LoopAdvance
    /\ UNCHANGED <<size, num_spheres, scene_pc, notScene>>

\* the loop is over: the three large spheres, and the list is returned
SceneEnd ==
    /\ scene_pc = "loop"
    /\ ~InLoop
    /\ scene_world' = scene_world \o LargeSpheres
    /\ scene_pc' = "done"
    /\ UNCHANGED <<size, loop_a, loop_b, num_spheres, candidates, thread_rng, notScene>>

NextScene ==
    \/ SceneBegin
    \/ SceneSkip
    \/ SceneAddDiffuse
    \/ SceneAddMetal
    \/ SceneAddGlass
    \/ SceneEnd

\* the largest half-extent tried
MaxSize == 4

SceneIdle ==
    /\ size = 0
    /\ loop_a = 0
    /\ loop_b = 0
    /\ scene_world = <<>>
    /\ num_spheres = 0
    /\ scene_pc = "idle"
    /\ candidates = 0
    /\ thread_rng = 0

\* random_scene(size) is called
InitScene ==
    /\ size \in 0..MaxSize
    /\ thread_rng \in 0..MaxSeed
    /\ loop_a = 0
    /\ loop_b = 0
    /\ scene_world = <<>>
    /\ num_spheres = 0
    /\ scene_pc = "begin"
    /\ candidates = 0

\* C8: random_scene considers exactly (2*size+1)^2 small-sphere placements,
\* and the scene it returns always holds the ground sphere and the three
\* large spheres: its length is between 4 and 4 + (2*size+1)^2.
C8_SceneCandidates ==
    /\ candidates <= (2 * size + 1) * (2 * size + 1)
    /\ scene_pc = "done" =>
        /\ candidates = (2 * size + 1) * (2 * size + 1)
        /\ Len(scene_world) >= 4
        /\ Len(scene_world) <= 4 + (2 * size + 1) * (2 * size + 1)
        /\ scene_world[1] = Ground
        /\ SubSeq(scene_world, Len(scene_world) - 2, Len(scene_world))
               = LargeSpheres
        /\ \A k \in 2..(Len(scene_world) - 3) : scene_world[k].radius = 200

\* a scene is returned from which the distance test has kept a sphere out
C8_Witness ==
    /\ scene_pc = "done"
    /\ size >= 1
    /\ Len(scene_world) > 4
    /\ Len(scene_world) < 4 + candidates

-----------------------------------------------------------------------------
(* main: the jitter draws, shared by the render loop and by one pixel *)

\* distribution.sample(&mut rng.clone()): the draw is made from a copy of
\* rng in the state rng has; the copy advances and is dropped
DrawFromClone(g) ==
    [read |-> g, value |-> Uniform(-Scale, Scale, g), clone |-> RngNext(g)]

\* the generator states read by the two draws of one sample
SampleReads(g) == {DrawFromClone(g).read, DrawFromClone(g).read}

\* the generator states read by the draws of n samples
FoldReads(g, n) == UNION {SampleReads(g) : s \in 1..n}

\* the largest number of samples per pixel tried
MaxSamples == 2

DrawIdle ==
    /\ samples_per_pixel = 0
    /\ rng = 0
    /\ rng_reads = {}
    /\ n_draws = 0

\* samples_per_pixel, and StdRng::from_entropy()
InitDraw ==
    /\ samples_per_pixel \in 1..MaxSamples
    /\ rng \in 0..MaxSeed
    /\ rng_reads = {}
    /\ n_draws = 0

-----------------------------------------------------------------------------
(* main: the parallel render and the write loop.  A pixel's value is       *)
(* written <<i, j>>, the indices it was computed for.                      *)

\* ImageSettings::new: the height is the truncated quotient
ImageHeight(width, aspect_ratio) ==
    TDiv(Div(width * Scale, aspect_ratio), Scale)

\* the aspect ratios tried: 1 and from_width's 16/9
AspectRatios == {Scale, Div(16 * Scale, 9 * Scale)}

\* a slot of the collected vectors that no task has filled yet
Empty == <<>>

\* 0..image.img_height, the indices of the outer iterator
Rows == 0..(img_height - 1)

\* 0..image.img_width, the indices of the inner iterator
Cols == 0..(img_width - 1)

\* the slot of row j without the reversal
RowSlotNoRev(j) == j + 1

\* the slot of the outer collect() that row j fills: the iterator is reversed
RowSlot(j) == img_height - j

\* the slot of the inner collect() that pixel i fills
PixelSlot(i) == i + 1

\* every task of both iterators has run
AllCollected ==
    /\ rows_started = Rows
    /\ \A p \in Cols \X Rows : computed[p] >= 1

\* the outer closure starts for row j
RowStart ==
    /\ render_pc = "render"
    /\ \E j \in Rows \ rows_started :
        rows_started' = rows_started \cup {j}
    /\ UNCHANGED <<img_width, img_height, scene, computed, out, render_pc,
                   drawVars, notRender>>

\* the inner closure runs for pixel (i, j) of a started row
PixelTask ==
    /\ render_pc = "render"
    /\ \E j \in rows_started : \E i \in Cols :
        /\ computed[<<i, j>>] = 0
        /\ computed' = [computed EXCEPT ![<<i, j>>] = @ + 1]
        /\ scene' = [scene EXCEPT ![RowSlot(j)][PixelSlot(i)] = <<i, j>>]
    /\ rng_reads' = rng_reads \cup FoldReads(rng, samples_per_pixel)
    /\ n_draws' = n_draws + 2 * samples_per_pixel
    /\ UNCHANGED <<img_width, img_height, rows_started, out, render_pc,
                   samples_per_pixel, rng, notRender>>

\* both collect() calls are complete; the header is written
RenderCollect ==
    /\ render_pc = "render"
    /\ AllCollected
    /\ render_pc' = "write"
    /\ UNCHANGED <<img_width, img_height, rows_started, scene, computed, out,
                   drawVars, notRender>>

\* one writeln! of the nested loops over scene
WritePixel ==
    /\ render_pc = "write"
    /\ Len(out) < img_width * img_height
    /\ out' = Append(out, scene[(Len(out) \div img_width) + 1]
                               [(Len(out) % img_width) + 1])
    /\ UNCHANGED <<img_width, img_height, rows_started, scene, computed,
                   render_pc, drawVars, notRender>>

\* writer.flush()
WriteFlush ==
    /\ render_pc = "write"
    /\ Len(out) = img_width * img_height
    /\ render_pc' = "done"
    /\ UNCHANGED <<img_width, img_height, rows_started, scene, computed, out,
                   drawVars, notRender>>

NextRender ==
    \/ RowStart
    \/ PixelTask
    \/ RenderCollect
    \/ WritePixel
    \/ WriteFlush

\* the largest image width tried
MaxWidth == 2

RenderIdle ==
    /\ img_width = 0
    /\ img_height = 0
    /\ rows_started = {}
    /\ scene = <<>>
    /\ computed = <<>>
    /\ out = <<>>
    /\ render_pc = "idle"

\* main reaches the render
InitRender ==
    /\ img_width \in 1..MaxWidth
    /\ \E aspect_ratio \in AspectRatios :
        img_height = ImageHeight(img_width, aspect_ratio)
    /\ rows_started = {}
    /\ scene = [r \in 1..img_height |-> [c \in 1..img_width |-> Empty]]
    /\ computed = [p \in Cols \X Rows |-> 0]
    /\ out = <<>>
    /\ render_pc = "render"

\* C5: the two jitter draws of a sample, and the draws of different samples
\* and pixels, are independent: each draw advances the generator, so no two
\* draws read the same generator state.
C5_DrawsAdvanceGenerator == Cardinality(rng_reads) = n_draws

\* C6: the render yields img_height rows of img_width pixels, each (i, j)
\* computed exactly once and kept in its own slot whatever the order the
\* tasks ran in; the output lists rows by descending j and, in a row,
\* pixels by ascending i.
C6_ParallelRenderOrder ==
    /\ DOMAIN scene = 1..img_height
    /\ \A r \in 1..img_height : DOMAIN scene[r] = 1..img_width
    /\ \A r \in 1..img_height : \A c \in 1..img_width :
        scene[r][c] \in {Empty, <<c - 1, img_height - r>>}
    /\ \A p \in Cols \X Rows :
        /\ computed[p] <= 1
        /\ computed[p] = 1 <=> scene[img_height - p[2]][p[1] + 1] = p
    /\ render_pc \in {"write", "done"} =>
        \A p \in Cols \X Rows : computed[p] = 1
    /\ \A k \in 1..Len(out) :
        out[k] = << (k - 1) % img_width,
                    img_height - 1 - ((k - 1) \div img_width) >>
    /\ render_pc = "done" => Len(out) = img_width * img_height

\* the output is complete for an image of several rows and columns
C6_Witness ==
    /\ render_pc = "done"
    /\ img_width >= 2
    /\ img_height >= 2
    /\ out[1] = <<0, img_height - 1>>
    /\ out[Len(out)] = <<img_width - 1, 0>>

-----------------------------------------------------------------------------
(* main: one pixel, from the fold over its samples to its line of output *)

\* the value that stands for a NaN channel
NaN == -(Inf + 1)

\* f64::clamp
Clamp(x, lo, hi) == IF x < lo THEN lo ELSE IF x > hi THEN hi ELSE x

\* the correction without the clamp
GammaOfUnclamped(q) ==
    IF q < 0 THEN NaN ELSE Mul(Sqrt(q), 256 * Scale)

\* q.sqrt().clamp(0.0, 0.999) * 256_f64; the root of a negative is NaN, and
\* NaN stays NaN
GammaOf(q) ==
    IF q < 0 THEN NaN ELSE Mul(Clamp(Sqrt(q), 0, 999), 256 * Scale)

\* the closure given to pixel.apply
GammaCorrect(x, n) == GammaOf(Div(x, n * Scale))

\* x as i32: truncation toward zero, NaN gives 0
AsI32(x) == IF x = NaN THEN 0 ELSE TDiv(x, Scale)

\* colors ray_color returns: black, the two ends of the background, a
\* background seen through an albedo of random_scene with negative parts
SampleColors ==
    {Black, BackgroundAt(0), BackgroundAt(Scale), <<-250, 300, 999>>}

\* one step of the fold: two draws, a ray, its color added to acc
PixelSample ==
    /\ pixel_pc = "fold"
    /\ samples_done < samples_per_pixel
    /\ \E c \in SampleColors : pixel' = VAdd(pixel, c)
    /\ samples_done' = samples_done + 1
    /\ rng_reads' = rng_reads \cup SampleReads(rng)
    /\ n_draws' = n_draws + 2
    /\ UNCHANGED <<pixel_pc, line, samples_per_pixel, rng, notPixel>>

\* pixel.apply
PixelApply ==
    /\ pixel_pc = "fold"
    /\ samples_done = samples_per_pixel
    /\ pixel' = [k \in 1..3 |-> GammaCorrect(pixel[k], samples_per_pixel)]
    /\ pixel_pc' = "applied"
    /\ UNCHANGED <<samples_done, line, drawVars, notPixel>>

\* the writeln! of the pixel
PixelWrite ==
    /\ pixel_pc = "applied"
    /\ line' = [k \in 1..3 |-> AsI32(pixel[k])]
    /\ pixel_pc' = "written"
    /\ UNCHANGED <<pixel, samples_done, drawVars, notPixel>>

NextPixel ==
    \/ PixelSample
    \/ PixelApply
    \/ PixelWrite

PixelIdle ==
    /\ pixel = <<0, 0, 0>>
    /\ samples_done = 0
    /\ pixel_pc = "idle"
    /\ line = <<>>

\* the fold starts from Color::from_element(0.0)
InitPixel ==
    /\ pixel = FromElement(0)
    /\ samples_done = 0
    /\ pixel_pc = "fold"
    /\ line = <<>>

\* C7: every channel written to the image is an integer of 0..255.
C7_ChannelsInRange ==
    /\ pixel_pc = "applied" =>
        \A k \in 1..3 : pixel[k] = NaN \/ (0 <= pixel[k] /\ pixel[k] < 256 * Scale)
    /\ pixel_pc = "written" =>
        \A k \in 1..3 : line[k] \in 0..255

\* a line is written with a saturated channel, a channel strictly inside
\* the range, and a channel that came from a negative sum
C7_Witness ==
    /\ pixel_pc = "written"
    /\ \E k \in 1..3 : line[k] = 255
    /\ \E k \in 1..3 : line[k] \in 1..254
    /\ \E k \in 1..3 : pixel[k] = NaN

-----------------------------------------------------------------------------
(* Specifications *)

InitSpecHit ==
    InitHit /\ ColorIdle /\ SceneIdle /\ DrawIdle /\ RenderIdle /\ PixelIdle

SpecHit == InitSpecHit /\ [][NextHit]_vars

InitSpecColor ==
    InitColor /\ HitIdle /\ SceneIdle /\ DrawIdle /\ RenderIdle /\ PixelIdle

SpecColor == InitSpecColor /\ [][NextColor]_vars

InitSpecScene ==
    InitScene /\ HitIdle /\ ColorIdle /\ DrawIdle /\ RenderIdle /\ PixelIdle

SpecScene == InitSpecScene /\ [][NextScene]_vars

InitSpecRender ==
    InitRender /\ InitDraw /\ HitIdle /\ ColorIdle /\ SceneIdle /\ PixelIdle

SpecRender == InitSpecRender /\ [][NextRender]_vars

InitSpecPixel ==
    InitPixel /\ InitDraw /\ HitIdle /\ ColorIdle /\ SceneIdle /\ RenderIdle

SpecPixel == InitSpecPixel /\ [][NextPixel]_vars

=============================================================================
